---- MODULE Spec2Model ----
(***************************************************************************)
(* Model of the habit-tracking server nbc7/nlw-habits-server:              *)
(* the datastore tables (users, habits with their week days, days,         *)
(* day_habits) and the handlers of habitsRoutes.  POST /habits/new and     *)
(* PATCH /habits/:id/toggle change the datastore and are actions; POST     *)
(* /day and POST /summary only read it and are operators on the state.     *)
(* Spec runs the handlers one after the other; ConcSpec runs toggle        *)
(* requests concurrently, one datastore round trip per step.               *)
(* AuthSpec runs POST /users of authRoutes with generateUniqueUsername,     *)
(* one loop iteration per step.                                            *)
(*                                                                         *)
(* Time is an integer number of ticks since the Unix epoch (UTC), with     *)
(* TicksPerDay ticks in a day.  tz is the offset of the reference          *)
(* timezone that lib/dayjs configures: local time = UTC time + tz.         *)
(* Record ids (uuids in the program) are opaque fresh values; the model    *)
(* draws the least natural number that no row and no running request       *)
(* holds.                                                                  *)
(***************************************************************************)
EXTENDS Integers, FiniteSets, Sequences, TLC

\* ---------------------------------------------------------------- bounds
MaxHabits == 2
MaxNow == 2
TicksPerDay == 2
NumReqs == 2
MaxUsers == 3
MaxIdentifier == 3

VARIABLES users, habits, days, dayHabits, now, tz, pc, req, toggledDates

\* toggledDates is a history variable: the dates (`today` of the handler)
\* on which PATCH /habits/:id/toggle has been called so far

vars == <<users, habits, days, dayHabits, now, tz, pc, req, toggledDates>>
db == <<users, habits, days, dayHabits>>

\* null / undefined of the program (ids start at 1)
NULL == 0

Reqs == 1..NumReqs
TzOffsets == {-1, 0, 1}
Emails == {"alice", "bob", "nobody"}
Titles == {"Run"}
WeekDaysInputs == {<<0, 1, 2, 3, 4, 5, 6>>, <<4>>, <<7>>, <<4, 4>>}
HabitIdInputs == 1..(MaxHabits + 1)
DateInputs == (0 - TicksPerDay)..MaxNow

IdleReq == [id |-> NULL, today |-> 0, day |-> NULL, dayHabit |-> NULL, error |-> "none"]

Range(s) == {s[i] : i \in DOMAIN s}

\* ------------------------------------------------------------------ time
\* index of the calendar day of instant t in the reference timezone
LocalDay(t) == (t + tz) \div TicksPerDay

\* dayjs.tz(t).startOf('day'): the instant of local midnight at or before t
startOfDay(t) == LocalDay(t) * TicksPerDay - tz

\* parsedDate.get('day'): weekday 0..6 (Sunday = 0) in the reference
\* timezone; the epoch day 1970-01-01 is a Thursday (4)
weekDay(t) == (LocalDay(t) + 4) % 7

\* cast(strftime('%w', D.date/1000.0, 'unixepoch') as int): weekday in UTC
strftime_w(t) == ((t \div TicksPerDay) + 4) % 7

\* faulty variant: the clock is read without .startOf('day')
todayNotTruncated == now

\* dayjs.tz(undefined).startOf('day').toDate()
today == startOfDay(now)

\* ------------------------------------------------------------- datastore
FreshId(used) == CHOOSE n \in 1..(Cardinality(used) + 1) :
                    n \notin used /\ \A m \in 1..(n - 1) : m \in used

\* faulty variant: an unknown email falls back to the first user
userIdOrFirst(email) ==
    IF \E u \in users : u.email = email
    THEN (CHOOSE u \in users : u.email = email).id
    ELSE 1

\* user?.id after prisma.user.findUnique({ where: { email } })
userId(email) ==
    IF \E u \in users : u.email = email
    THEN (CHOOSE u \in users : u.email = email).id
    ELSE NULL

\* faulty variant: the owner filter is left out
whereUserIdAnyOwner(h, uid) == TRUE

\* a Prisma filter `userId: user?.id`: an undefined value drops the filter
whereUserId(h, uid) == uid = NULL \/ h.userId = uid

\* prisma.day.findUnique({ where: { date } }): the row's id or NULL
dayFindUnique(ds, date) ==
    IF \E d \in ds : d.date = date
    THEN (CHOOSE d \in ds : d.date = date).id
    ELSE NULL

\* faulty variant: the insert does not check the date for uniqueness
dayCreateUnchecked(ds, date) == TRUE

\* the unique constraint on days.date that prisma.day.create enforces
dayCreateAllowed(ds, date) == ~ \E d \in ds : d.date = date

dayCreateId(ds) == FreshId({d.id : d \in ds})

\* prisma.day.create({ data: { date } })
dayCreate(ds, date) == ds \cup {[id |-> dayCreateId(ds), date |-> date]}

\* prisma.dayHabit.findUnique({ where: { day_id_habit_id } }): id or NULL
dayHabitFindUnique(dhs, day_id, habit_id) ==
    IF \E x \in dhs : x.day_id = day_id /\ x.habit_id = habit_id
    THEN (CHOOSE x \in dhs : x.day_id = day_id /\ x.habit_id = habit_id).id
    ELSE NULL

\* the unique constraint on (day_id, habit_id) of prisma.dayHabit.create
dayHabitUnique(dhs, day_id, habit_id) ==
    ~ \E x \in dhs : x.day_id = day_id /\ x.habit_id = habit_id

\* the foreign key day_habits.habit_id -> habits.id
habitExists(habit_id) == \E h \in habits : h.id = habit_id

\* prisma.dayHabit.create({ data: { day_id, habit_id } })
dayHabitCreate(dhs, held, day_id, habit_id) ==
    dhs \cup {[id |-> FreshId({x.id : x \in dhs} \cup held),
               day_id |-> day_id, habit_id |-> habit_id]}

\* faulty variant: the delete keeps the row it should remove
dayHabitDeleteNothing(dhs, id) == dhs

\* prisma.dayHabit.delete({ where: { id } })
dayHabitDelete(dhs, id) == {x \in dhs : x.id # id}

\* ids of day_habits rows that running requests still hold
heldIds == {req[r].dayHabit : r \in {q \in Reqs : pc[q] = "deleteDayHabit"}}

\* ------------------------------------------------------------- POST /day
\* faulty variant: created_at is compared with lt instead of lte
possibleHabitsLt(userEmail, date) ==
    LET parsedDate == startOfDay(date)
        wd == weekDay(parsedDate)
        uid == userId(userEmail)
    IN {h \in habits : /\ h.created_at < date
                       /\ wd \in h.weekDays
                       /\ whereUserId(h, uid)}

possibleHabits(userEmail, date) ==
    LET parsedDate == startOfDay(date)
        wd == weekDay(parsedDate)
        uid == userId(userEmail)
    IN {h \in habits : /\ h.created_at <= date
                       /\ wd \in h.weekDays
                       /\ whereUserId(h, uid)}

completedHabits(userEmail, date) ==
    LET parsedDate == startOfDay(date)
        uid == userId(userEmail)
        day == dayFindUnique(days, parsedDate)
    IN IF day = NULL THEN {}
       ELSE {x.habit_id : x \in
               {x \in dayHabits :
                   /\ x.day_id = day
                   /\ \E h \in habits : h.id = x.habit_id /\ whereUserId(h, uid)}}

\* the handler's return value { possibleHabits, completedHabits }; it reads
\* the datastore and changes nothing
GetDayView(userEmail, date) ==
    [possibleHabits |-> possibleHabits(userEmail, date),
     completedHabits |-> completedHabits(userEmail, date)]

\* --------------------------------------------------------- POST /summary
\* faulty variant: the join forgets AND H.userId = ${user?.id}
completedRowsAnyUser(D, uid) ==
    {p \in dayHabits \X habits :
        /\ p[2].id = p[1].habit_id
        /\ p[1].day_id = D.id
        /\ uid # NULL}

\* day_habits DH JOIN habits H ON H.id = DH.habit_id
\*   WHERE DH.day_id = D.id AND H.userId = ${user?.id}
completedRows(D, uid) ==
    {p \in dayHabits \X habits :
        /\ p[2].id = p[1].habit_id
        /\ p[1].day_id = D.id
        /\ uid # NULL /\ p[2].userId = uid}

\* habit_week_days HWD JOIN habits H ON H.id = HWD.habit_id
\*   WHERE HWD.week_day = strftime('%w', D.date) AND H.created_at <= D.date
\*     AND H.userId = ${user?.id}
amountRows(D, uid) ==
    {p \in (0..6) \X habits :
        /\ p[1] \in p[2].weekDays
        /\ p[1] = strftime_w(D.date)
        /\ p[2].created_at <= D.date
        /\ uid # NULL /\ p[2].userId = uid}

summary(userEmail) ==
    LET uid == userId(userEmail)
    IN {[id |-> D.id, date |-> D.date,
         completed |-> Cardinality(completedRows(D, uid)),
         amount |-> Cardinality(amountRows(D, uid))] :
            D \in {D \in days : completedRows(D, uid) # {}}}

\* the handler's return value; it reads the datastore and changes nothing
GetSummary(userEmail) == summary(userEmail)

\* ------------------------------------------------------ POST /habits/new
\* z.array(z.number().min(0).max(6))
weekDaysValid(weekDays) == \A i \in DOMAIN weekDays : 0 <= weekDays[i] /\ weekDays[i] <= 6

\* the nested create of habit_week_days rows, one per element
weekDaysUnique(weekDays) ==
    \A i, j \in DOMAIN weekDays : weekDays[i] = weekDays[j] => i = j

\* how the request ends: rejected by the body schema, rejected by the
\* datastore, or stored
createHabitStatus(weekDays) ==
    IF ~ weekDaysValid(weekDays) THEN "validation_error"
    ELSE IF ~ weekDaysUnique(weekDays) THEN "constraint_error"
    ELSE "ok"

CreateHabit(title, weekDays, email) ==
    /\ Cardinality(habits) < MaxHabits
    /\ IF createHabitStatus(weekDays) = "ok"
       THEN habits' = habits \cup
                  {[id |-> FreshId({h.id : h \in habits}),
                    title |-> title,
                    created_at |-> today,
                    userId |-> userId(email),
                    weekDays |-> Range(weekDays)]}
       ELSE UNCHANGED habits
    /\ UNCHANGED <<users, days, dayHabits, now, tz, pc, req, toggledDates>>

\* ----------------------------------------------- PATCH /habits/:id/toggle
\* faulty variant: a failed record insert takes the new Day row back
toggleRolledBack(ds, dhs, held, id, date) ==
    LET found == dayFindUnique(ds, date)
        ds1 == IF found = NULL THEN dayCreate(ds, date) ELSE ds
        day == IF found = NULL THEN dayCreateId(ds) ELSE found
        dayHabit == dayHabitFindUnique(dhs, day, id)
    IN IF dayHabit # NULL
       THEN [days |-> ds1, dayHabits |-> dayHabitDelete(dhs, dayHabit), status |-> "ok"]
       ELSE IF ~ habitExists(id)
       THEN [days |-> ds, dayHabits |-> dhs, status |-> "foreign_key_error"]
       ELSE [days |-> ds1, dayHabits |-> dayHabitCreate(dhs, held, day, id),
             status |-> "ok"]

\* the handler run from its first to its last datastore call
toggle(ds, dhs, held, id, date) ==
    LET found == dayFindUnique(ds, date)
        ds1 == IF found = NULL THEN dayCreate(ds, date) ELSE ds
        day == IF found = NULL THEN dayCreateId(ds) ELSE found
        dayHabit == dayHabitFindUnique(dhs, day, id)
    IN IF dayHabit # NULL
       THEN [days |-> ds1, dayHabits |-> dayHabitDelete(dhs, dayHabit), status |-> "ok"]
       ELSE IF ~ habitExists(id)
       THEN [days |-> ds1, dayHabits |-> dhs, status |-> "foreign_key_error"]
       ELSE [days |-> ds1, dayHabits |-> dayHabitCreate(dhs, held, day, id),
             status |-> "ok"]

Toggle(id) ==
    LET r == toggle(days, dayHabits, heldIds, id, today)
    IN /\ days' = r.days
       /\ dayHabits' = r.dayHabits
       /\ toggledDates' = toggledDates \cup {today}
       /\ UNCHANGED <<users, habits, now, tz, pc, req>>

\* -------------------- PATCH /habits/:id/toggle, one round trip per step
\* the request is parsed and `today` is read from the clock
ToggleStart(r, id) ==
    /\ pc[r] = "idle"
    /\ req' = [req EXCEPT ![r] = [IdleReq EXCEPT !.id = id, !.today = today]]
    /\ pc' = [pc EXCEPT ![r] = "findDay"]
    /\ toggledDates' = toggledDates \cup {today}
    /\ UNCHANGED <<db, now, tz>>

\* let day = await prisma.day.findUnique(...)
ToggleFindDay(r) ==
    /\ pc[r] = "findDay"
    /\ LET found == dayFindUnique(days, req[r].today)
       IN /\ req' = [req EXCEPT ![r].day = found]
          /\ pc' = [pc EXCEPT ![r] = IF found = NULL THEN "createDay" ELSE "findDayHabit"]
    /\ UNCHANGED <<db, now, tz, toggledDates>>

\* if (!day) day = await prisma.day.create(...)
ToggleCreateDay(r) ==
    /\ pc[r] = "createDay"
    /\ IF dayCreateAllowed(days, req[r].today)
       THEN /\ days' = dayCreate(days, req[r].today)
            /\ req' = [req EXCEPT ![r].day = dayCreateId(days)]
            /\ pc' = [pc EXCEPT ![r] = "findDayHabit"]
       ELSE /\ req' = [req EXCEPT ![r].error = "unique_constraint"]
            /\ pc' = [pc EXCEPT ![r] = "failed"]
            /\ UNCHANGED days
    /\ UNCHANGED <<users, habits, dayHabits, now, tz, toggledDates>>

\* const dayHabit = await prisma.dayHabit.findUnique(...)
ToggleFindDayHabit(r) ==
    /\ pc[r] = "findDayHabit"
    /\ LET found == dayHabitFindUnique(dayHabits, req[r].day, req[r].id)
       IN /\ req' = [req EXCEPT ![r].dayHabit = found]
          /\ pc' = [pc EXCEPT ![r] =
                       IF found = NULL THEN "createDayHabit" ELSE "deleteDayHabit"]
    /\ UNCHANGED <<db, now, tz, toggledDates>>

\* await prisma.dayHabit.delete({ where: { id: dayHabit.id } })
ToggleDeleteDayHabit(r) ==
    /\ pc[r] = "deleteDayHabit"
    /\ IF \E x \in dayHabits : x.id = req[r].dayHabit
       THEN /\ dayHabits' = dayHabitDelete(dayHabits, req[r].dayHabit)
            /\ pc' = [pc EXCEPT ![r] = "done"]
            /\ UNCHANGED req
       ELSE /\ req' = [req EXCEPT ![r].error = "record_not_found"]
            /\ pc' = [pc EXCEPT ![r] = "failed"]
            /\ UNCHANGED dayHabits
    /\ UNCHANGED <<users, habits, days, now, tz, toggledDates>>

\* await prisma.dayHabit.create({ data: { day_id: day.id, habit_id: id } })
ToggleCreateDayHabit(r) ==
    /\ pc[r] = "createDayHabit"
    /\ IF ~ dayHabitUnique(dayHabits, req[r].day, req[r].id)
       THEN /\ req' = [req EXCEPT ![r].error = "unique_constraint"]
            /\ pc' = [pc EXCEPT ![r] = "failed"]
            /\ UNCHANGED dayHabits
       ELSE IF ~ habitExists(req[r].id)
       THEN /\ req' = [req EXCEPT ![r].error = "foreign_key"]
            /\ pc' = [pc EXCEPT ![r] = "failed"]
            /\ UNCHANGED dayHabits
       ELSE /\ dayHabits' = dayHabitCreate(dayHabits, heldIds, req[r].day, req[r].id)
            /\ pc' = [pc EXCEPT ![r] = "done"]
            /\ UNCHANGED req
    /\ UNCHANGED <<users, habits, days, now, tz, toggledDates>>

\* the response (200, or 500 with the error) is sent
ToggleEnd(r) ==
    /\ pc[r] \in {"done", "failed"}
    /\ pc' = [pc EXCEPT ![r] = "idle"]
    /\ req' = [req EXCEPT ![r] = IdleReq]
    /\ UNCHANGED <<db, now, tz, toggledDates>>

\* ----------------------------------------------------------------- clock
Tick ==
    /\ now < MaxNow
    /\ now' = now + 1
    /\ UNCHANGED <<db, tz, pc, req, toggledDates>>

\* --------------------------------------------------------- specification
\* two users have logged in and alice has created a first habit
Init ==
    /\ users = {[id |-> 1, email |-> "alice"], [id |-> 2, email |-> "bob"]}
    /\ tz \in TzOffsets
    /\ now = 0
    /\ habits = {[id |-> 1, title |-> "Run", created_at |-> startOfDay(0),
                  userId |-> 1, weekDays |-> 0..6]}
    /\ days = {}
    /\ dayHabits = {}
    /\ pc = [r \in Reqs |-> "idle"]
    /\ req = [r \in Reqs |-> IdleReq]
    /\ toggledDates = {}

Next ==
    \/ \E title \in Titles, weekDays \in WeekDaysInputs, email \in Emails :
          CreateHabit(title, weekDays, email)
    \/ \E id \in HabitIdInputs : Toggle(id)
    \/ Tick

Spec == Init /\ [][Next]_vars

\* concurrent toggle requests on a datastore that holds two habits
ConcInit ==
    /\ users = {[id |-> 1, email |-> "alice"], [id |-> 2, email |-> "bob"]}
    /\ tz \in TzOffsets
    /\ now = 0
    /\ habits = {[id |-> 1, title |-> "Run", created_at |-> startOfDay(0),
                  userId |-> 1, weekDays |-> 0..6],
                 [id |-> 2, title |-> "Run", created_at |-> startOfDay(0),
                  userId |-> 2, weekDays |-> {4}]}
    /\ days = {}
    /\ dayHabits = {}
    /\ pc = [r \in Reqs |-> "idle"]
    /\ req = [r \in Reqs |-> IdleReq]
    /\ toggledDates = {}

ConcNext ==
    \/ \E r \in Reqs, id \in HabitIdInputs : ToggleStart(r, id)
    \/ \E r \in Reqs : ToggleFindDay(r)
    \/ \E r \in Reqs : ToggleCreateDay(r)
    \/ \E r \in Reqs : ToggleFindDayHabit(r)
    \/ \E r \in Reqs : ToggleDeleteDayHabit(r)
    \/ \E r \in Reqs : ToggleCreateDayHabit(r)
    \/ \E r \in Reqs : ToggleEnd(r)
    \/ Tick

ConcSpec == ConcInit /\ [][ConcNext]_vars

\* ------------------------------------------------------------ POST /users
\* In AuthSpec a user row is [id, googleId, username], a username is a
\* sequence of characters and NoUsername is the null of the optional column.
NoUsername == <<>>
Bases == {<<"a">>, <<"a", "1">>, <<"b">>}
GoogleIds == 1..MaxUsers

\* `${identifier}`: the decimal digits of the counter
identifierString(i) ==
    CASE i = 1 -> <<"1">> [] i = 2 -> <<"2">> [] i = 3 -> <<"3">>
      [] i = 4 -> <<"4">> [] i = 5 -> <<"5">> [] i = 6 -> <<"6">>
      [] i = 7 -> <<"7">> [] i = 8 -> <<"8">> [] OTHER -> <<"9">>

\* prisma.user.findUnique({ where: { username } }) is not null
usernameExists(username) == \E u \in users : u.username = username

\* prisma.user.findUnique({ where: { googleId } })
userByGoogleId(googleId) ==
    IF \E u \in users : u.googleId = googleId
    THEN CHOOSE u \in users : u.googleId = googleId
    ELSE [id |-> NULL, googleId |-> googleId, username |-> NoUsername]

IdleAuthReq == [googleId |-> NULL, username |-> NoUsername,
                uniqueUsername |-> NoUsername, identifier |-> 1,
                then |-> "none", error |-> "none"]

\* the token is verified, the profile fetched and the user looked up
UsersStart(r, googleId, base) ==
    /\ \A q \in Reqs : pc[q] = "idle"
    /\ LET user == userByGoogleId(googleId)
       IN /\ req' = [req EXCEPT ![r] =
                        [IdleAuthReq EXCEPT !.googleId = googleId,
                                            !.username = base,
                                            !.uniqueUsername = base,
                                            !.then = IF user.id = NULL THEN "create"
                                                     ELSE "update"]]
          /\ pc' = [pc EXCEPT ![r] =
                       IF user.id = NULL \/ user.username = NoUsername
                       THEN "generateUniqueUsername" ELSE "sign"]
    /\ UNCHANGED <<db, now, tz, toggledDates>>

\* one iteration of the while (true) of generateUniqueUsername; the
\* counter is kept within MaxIdentifier
GenerateUniqueUsernameStep(r) ==
    /\ pc[r] = "generateUniqueUsername"
    /\ IF ~ usernameExists(req[r].username)
       THEN /\ pc' = [pc EXCEPT ![r] = req[r].then]
            /\ UNCHANGED req
       ELSE /\ req' = [req EXCEPT
                         ![r].uniqueUsername =
                             req[r].username \o identifierString(req[r].identifier),
                         ![r].identifier =
                             IF req[r].identifier < MaxIdentifier
                             THEN req[r].identifier + 1 ELSE MaxIdentifier]
            /\ UNCHANGED pc
    /\ UNCHANGED <<db, now, tz, toggledDates>>

\* prisma.user.create({ data: { googleId, username, ... } })
UsersCreate(r) ==
    /\ pc[r] = "create"
    /\ IF usernameExists(req[r].uniqueUsername)
       THEN /\ req' = [req EXCEPT ![r].error = "unique_constraint"]
            /\ pc' = [pc EXCEPT ![r] = "failed"]
            /\ UNCHANGED users
       ELSE /\ users' = users \cup
                   {[id |-> FreshId({u.id : u \in users}),
                     googleId |-> req[r].googleId,
                     username |-> req[r].uniqueUsername]}
            /\ pc' = [pc EXCEPT ![r] = "sign"]
            /\ UNCHANGED req
    /\ UNCHANGED <<habits, days, dayHabits, now, tz, toggledDates>>

\* prisma.user.update({ where: { googleId }, data: { username } })
UsersUpdate(r) ==
    /\ pc[r] = "update"
    /\ IF usernameExists(req[r].uniqueUsername)
       THEN /\ req' = [req EXCEPT ![r].error = "unique_constraint"]
            /\ pc' = [pc EXCEPT ![r] = "failed"]
            /\ UNCHANGED users
       ELSE /\ users' = {IF u.googleId = req[r].googleId
                         THEN [u EXCEPT !.username = req[r].uniqueUsername]
                         ELSE u : u \in users}
            /\ pc' = [pc EXCEPT ![r] = "sign"]
            /\ UNCHANGED req
    /\ UNCHANGED <<habits, days, dayHabits, now, tz, toggledDates>>

\* the user token is signed and returned (or the error is)
UsersEnd(r) ==
    /\ pc[r] \in {"sign", "failed"}
    /\ pc' = [pc EXCEPT ![r] = "idle"]
    /\ req' = [req EXCEPT ![r] = IdleAuthReq]
    /\ UNCHANGED <<db, now, tz, toggledDates>>

\* one user logged in before usernames were introduced
AuthInit ==
    /\ users = {[id |-> 1, googleId |-> 1, username |-> NoUsername]}
    /\ habits = {}
    /\ days = {}
    /\ dayHabits = {}
    /\ now = 0
    /\ tz = 0
    /\ pc = [r \in Reqs |-> "idle"]
    /\ req = [r \in Reqs |-> IdleAuthReq]
    /\ toggledDates = {}

AuthNext ==
    \/ \E r \in Reqs, googleId \in GoogleIds, base \in Bases :
          UsersStart(r, googleId, base)
    \/ \E r \in Reqs : GenerateUniqueUsernameStep(r)
    \/ \E r \in Reqs : UsersCreate(r)
    \/ \E r \in Reqs : UsersUpdate(r)
    \/ \E r \in Reqs : UsersEnd(r)

\* a request that has started is run to its end
AuthSpec ==
    /\ AuthInit
    /\ [][AuthNext]_vars
    /\ \A r \in Reqs :
          WF_vars(GenerateUniqueUsernameStep(r) \/ UsersCreate(r)
                  \/ UsersUpdate(r) \/ UsersEnd(r))

\* ================================================================ claims
userExists(email) == \E u \in users : u.email = email
theUser(email) == CHOOSE u \in users : u.email = email
ownedBy(habit_id, U) == \E h \in habits : h.id = habit_id /\ h.userId = U.id
pairs(dhs) == {<<x.day_id, x.habit_id>> : x \in dhs}
KnownEmails == {e \in Emails : userExists(e)}

\* C1: for an existing user U and a date D, the possibleHabits of the day
\* view are exactly the habits H with H.userId = U.id, H.created_at <=
\* startOfDay(D) and weekday(startOfDay(D)) in H.weekDays; a habit of U
\* scheduled on all seven weekdays is included iff D is not before its
\* created_at (its creation day included).
C1_PossibleHabits ==
    \A e \in KnownEmails :
        LET U == theUser(e)
            mine == {H \in habits : H.userId = U.id}
        IN \A date \in DateInputs :
              LET D == startOfDay(date)
                  view == [possibleHabits |-> possibleHabits(e, date)]
              IN /\ view.possibleHabits =
                      {H \in mine : H.created_at <= D /\ weekDay(D) \in H.weekDays}
                 /\ \A H \in mine :
                      H.weekDays = 0..6 =>
                          (H \in view.possibleHabits <=> date >= H.created_at)

\* a view of a habit's creation day, later than its midnight, includes it
\* and leaves out another habit of the same user; a view of its creation
\* midnight includes it and a view of an earlier date does not
C1_Witness ==
    \E e \in KnownEmails, date \in DateInputs, H \in habits :
        /\ H \in GetDayView(e, date).possibleHabits
        /\ H.created_at = startOfDay(date)
        /\ date > H.created_at
        /\ H.weekDays = 0..6
        /\ \E H2 \in habits \ GetDayView(e, date).possibleHabits :
              H2.userId = theUser(e).id
        /\ H \in GetDayView(e, H.created_at).possibleHabits
        /\ \E early \in DateInputs :
              early < H.created_at /\ H \notin GetDayView(e, early).possibleHabits

\* C2: for an existing user U, the completedHabits of the day view are
\* exactly the ids of the habits owned by U that have a DayHabit record
\* linked to the Day row whose date is startOfDay(D); no habit of another
\* owner is among them; without a Day row for that date the list is empty.
C2_CompletedHabits ==
    \A e \in KnownEmails :
        LET U == theUser(e)
            mine == {x \in dayHabits : ownedBy(x.habit_id, U)}
        IN \A date \in DateInputs :
              LET D == startOfDay(date)
                  rows == {d \in days : d.date = D}
                  view == [completedHabits |-> completedHabits(e, date)]
              IN /\ view.completedHabits =
                      {x.habit_id : x \in
                          {x \in mine : \E d \in rows : x.day_id = d.id}}
                 /\ \A id \in view.completedHabits : ownedBy(id, U)
                 /\ rows = {} => view.completedHabits = {}

\* a day on which the user and somebody else both completed
\* a habit, and a date without a Day row
C2_Witness ==
    /\ dayHabits # {}
    /\ \E e \in KnownEmails, date \in DateInputs :
          /\ GetDayView(e, date).completedHabits # {}
          /\ \E d \in days, x \in dayHabits :
                /\ d.date = startOfDay(date)
                /\ x.day_id = d.id
                /\ ~ ownedBy(x.habit_id, theUser(e))
          /\ \E other \in DateInputs : \A d \in days : d.date # startOfDay(other)

\* C3: a toggle flips the pair (today's Day, h): an existing record is
\* deleted, a missing one created; two toggles in a row on one day leave
\* the (day, habit) pairs as they were, and one or three toggles starting
\* without a record leave exactly one record for the pair.
C3_ToggleFlip ==
    \A h \in habits :
        LET t1 == toggle(days, dayHabits, {}, h.id, today)
            t2 == toggle(t1.days, t1.dayHabits, {}, h.id, today)
            t3 == toggle(t2.days, t2.dayHabits, {}, h.id, today)
            day == dayFindUnique(t1.days, today)
            before == {d \in days : d.date = today}
            had == \E d \in before : <<d.id, h.id>> \in pairs(dayHabits)
            ofPair(dhs) == {x \in dhs : x.day_id = day /\ x.habit_id = h.id}
        IN /\ day # NULL
           /\ t2.days = t1.days /\ t3.days = t1.days
           /\ pairs(t1.dayHabits) =
                 IF had THEN pairs(dayHabits) \ {<<day, h.id>>}
                        ELSE pairs(dayHabits) \cup {<<day, h.id>>}
           /\ pairs(t2.dayHabits) = pairs(dayHabits)
           /\ ~ had => /\ Cardinality(ofPair(t1.dayHabits)) = 1
                       /\ Cardinality(ofPair(t3.dayHabits)) = 1

\* today's Day row holds a record of one habit, which the next toggle of
\* that habit deletes, and none of another, which its next toggle creates
C3_Witness ==
    \E d \in days, h1, h2 \in habits :
        /\ d.date = today
        /\ <<d.id, h1.id>> \in pairs(dayHabits)
        /\ <<d.id, h2.id>> \notin pairs(dayHabits)

\* C4: a toggle run while the clock's current date is T creates no Day row
\* but one of date T, creates or deletes no DayHabit record but one linked
\* to the Day row of date T, deletes no Day row, and leaves users and
\* habits unchanged.
C4_ToggleFrame ==
    [][(\E id \in HabitIdInputs : Toggle(id)) =>
          LET T == startOfDay(now)
          IN /\ users' = users /\ habits' = habits
             /\ days \subseteq days'
             /\ \A d \in days' \ days : d.date = T
             /\ \A x \in (dayHabits' \ dayHabits) \cup (dayHabits \ dayHabits') :
                   \E d \in days' : d.id = x.day_id /\ d.date = T]_vars

\* a toggle later than midnight has created a record on today's Day row,
\* while an earlier day holds a record too
C4_Witness ==
    /\ now > startOfDay(now)
    /\ \E d \in days, x \in dayHabits :
          d.date = startOfDay(now) /\ x.day_id = d.id
    /\ \E d \in days, x \in dayHabits :
          d.date < startOfDay(now) /\ x.day_id = d.id

\* C5: for an existing user U the summary holds exactly one row per Day row
\* that has a DayHabit record of a habit owned by U, none for another Day,
\* and each row's completed is the number of DayHabit records of that Day
\* whose habit U owns.
C5_SummaryRows ==
    \A e \in KnownEmails :
        LET U == theUser(e)
            mine(d) == {x \in dayHabits : x.day_id = d.id /\ ownedBy(x.habit_id, U)}
            active == {d \in days : mine(d) # {}}
            rows == GetSummary(e)
        IN /\ {r.id : r \in rows} = {d.id : d \in active}
           /\ Cardinality(rows) = Cardinality(active)
           /\ \A r \in rows : \E d \in active :
                 /\ r.id = d.id /\ r.date = d.date
                 /\ r.completed = Cardinality(mine(d))

\* a summary with a row whose Day holds a foreign record too, while a Day
\* that holds records of other owners only has no row
C5_Witness ==
    \E e \in KnownEmails :
        /\ \E d \in days :
              /\ d.id \notin {r.id : r \in GetSummary(e)}
              /\ \E x \in dayHabits : x.day_id = d.id
        /\ \E r \in GetSummary(e), x \in dayHabits :
              x.day_id = r.id /\ ~ ownedBy(x.habit_id, theUser(e))

\* C6: for an existing user, every summary row's amount equals the number
\* of possibleHabits of the day view of the row's date.
C6_AmountMatchesPossible ==
    \A e \in KnownEmails : \A r \in GetSummary(e) :
        r.amount = Cardinality(GetDayView(e, r.date).possibleHabits)

\* C7: no summary row has completed > amount.
C7_CompletedAtMostAmount ==
    \A e \in Emails : \A r \in GetSummary(e) : r.completed <= r.amount

\* C8: under every interleaving of the round trips of concurrent toggles
\* there is at most one Day row per date and at most one DayHabit record
\* per (day_id, habit_id).
C8_UniqueRows ==
    /\ \A d1, d2 \in days : d1.date = d2.date => d1 = d2
    /\ \A x1, x2 \in dayHabits :
          (x1.day_id = x2.day_id /\ x1.habit_id = x2.habit_id) => x1 = x2

\* two toggles of different habits both found no Day row for the same
\* date; one created it and completed, the other's insert was rejected
C8_Witness ==
    \E r1, r2 \in Reqs :
        /\ req[r1].id # req[r2].id
        /\ req[r1].today = req[r2].today
        /\ pc[r1] = "failed" /\ req[r1].error = "unique_constraint"
        /\ req[r1].day = NULL
        /\ pc[r2] = "done"
        /\ \E d \in days : d.date = req[r2].today /\ d.id = req[r2].day

\* C9: a uniqueness violation met by a toggle is recovered from and never
\* reaches the caller: no request fails with the constraint error.
C9_ConstraintErrorRecovered ==
    \A r \in Reqs : ~ (pc[r] = "failed" /\ req[r].error = "unique_constraint")

\* C10: the day view of an email that resolves to no user has no
\* possibleHabits, whatever the date and the stored habits.
C10_UnknownUserEmpty ==
    \A e \in Emails \ KnownEmails, date \in DateInputs :
        GetDayView(e, date).possibleHabits = {}

\* C11: createHabit rejects every weekDays input that is not a set of
\* integers in 0..6 (an element out of range or a repeated element) with a
\* validation failure, before the datastore is reached.
\* Every stored habit's weekDays are integers in 0..6.
C11_InvalidWeekDaysRejected ==
    /\ \A h \in habits : h.weekDays \subseteq 0..6
    /\ \A weekDays \in WeekDaysInputs :
          ~ (weekDaysValid(weekDays) /\ weekDaysUnique(weekDays))
              => createHabitStatus(weekDays) = "validation_error"

\* C12: createHabit with valid weekDays creates exactly one habit, whose
\* created_at is the start of the current day in the reference timezone,
\* whose owner is the user holding ownerEmail, or null when no user holds
\* it, and whose weekDays are the ones given; nothing else is created or
\* changed.
C12_CreateHabit ==
    [][\A title \in Titles, weekDays \in WeekDaysInputs, email \in Emails :
          (/\ CreateHabit(title, weekDays, email)
           /\ weekDaysValid(weekDays) /\ weekDaysUnique(weekDays))
          => /\ \E h \in habits' \ habits :
                   /\ habits' = habits \cup {h}
                   /\ h.id \notin {g.id : g \in habits}
                   /\ h.title = title
                   /\ h.weekDays = Range(weekDays)
                   /\ (h.created_at + tz) % TicksPerDay = 0
                   /\ LocalDay(h.created_at) = LocalDay(now)
                   /\ IF userExists(email) THEN h.userId = theUser(email).id
                                           ELSE h.userId = NULL
             /\ users' = users /\ days' = days /\ dayHabits' = dayHabits]_vars

\* later than midnight of a later day, an orphaned habit stamped with that
\* day's midnight has been created next to alice's first habit
C12_Witness ==
    /\ now > 0 /\ now > startOfDay(now)
    /\ \E h \in habits :
          /\ h.id # 1
          /\ h.userId = NULL
          /\ h.created_at = startOfDay(now)
          /\ h.created_at > startOfDay(0)

\* C13: a Day row exists for date D exactly when a toggle has been called
\* while the current date was D: no other operation creates a Day row, no
\* Day row is ever deleted (also when its last DayHabit record is removed),
\* and a toggle that fails after the Day step leaves its Day row in place.
C13_DayIffToggled ==
    /\ {d.date : d \in days} = toggledDates
    /\ \A id \in HabitIdInputs :
          LET r == toggle(days, dayHabits, heldIds, id, today)
          IN /\ days \subseteq r.days
             /\ \E d \in r.days : d.date = today

\* an earlier day's row is left without any record and a habit has been
\* created today, while no toggle was called today and today has no row
C13_Witness ==
    /\ \E d \in days :
          /\ d.date < today
          /\ ~ \E x \in dayHabits : x.day_id = d.id
    /\ \E h \in habits : h.id # 1 /\ h.created_at = today
    /\ today \notin toggledDates
    /\ ~ \E d \in days : d.date = today

\* C14: generateUniqueUsername terminates for every base name and every
\* set of existing users: a POST /users request that has entered it leaves
\* it.
C14_GenerateTerminates ==
    \A r \in Reqs :
        (pc[r] = "generateUniqueUsername") ~> (pc[r] # "generateUniqueUsername")

====
